---- MODULE Spec2Model ----
(***************************************************************************)
(* Virtual Media Player: the start-up player selection (main.py 255-258,   *)
(* interface.py 52-61), the frame loop of main() (main.py 261-309), the    *)
(* gesture methods of HandGesture (main.py 207-252) and the Youtube        *)
(* commands (interface.py 29-49).                                          *)
(*                                                                         *)
(* Time is counted in tenths of a second.  A Python list is a sequence;    *)
(* Python index i is sequence index i+1.  Python None is the string        *)
(* "None".  A landmark entry of the position list is <<index, x, y>>, as   *)
(* finger_position builds it, with x and y the pixel integers it stores.   *)
(***************************************************************************)
EXTENDS Integers, Sequences, FiniteSets, TLC

VARIABLES
    pc,                  \* position of the program
    scene,               \* what the user shows the camera: "any" or "fist"
    o_media_player_name, \* main.py 256: the text typed at the prompt
    o_media_player,      \* main.py 257: "None" or "Youtube"
    lines_pos_x,         \* main.py 271
    q,                   \* the level of the "q" key (environment)
    multi_handedness,    \* tracking.result.multi_handedness, a label per hand
    label,               \* main.py 288
    o_position_list,     \* main.py 289
    extracted,           \* main.py 291-300 ran for the current frame
    fingers,             \* main.py 291
    total_fingers,       \* main.py 300
    pending,             \* player operations the frame still has to invoke
    invoked,             \* player operations invoked for the current frame
    pressed,             \* keys pressed for the current frame
    sincePress,          \* tenths since the last key press; -1: none yet
    lastGap,             \* tenths between the last two key presses; -1: none
    exit                 \* how the frame loop ended

vars == <<pc, scene, o_media_player_name, o_media_player, lines_pos_x, q,
          multi_handedness, label, o_position_list, extracted, fingers,
          total_fingers, pending, invoked, pressed, sincePress, lastGap, exit>>

frameVars == <<multi_handedness, label, o_position_list, extracted, fingers,
               total_fingers, pending, invoked, pressed>>

(***************************************************************************)
(* Program constants and bounds                                            *)
(***************************************************************************)
\* interface.py 33: time.sleep(0.7), in tenths of a second
SettleDelay == 7

\* main.py 84: max_num_hands
max_num_hands == 2

\* main.py 23
finger_tips == <<4, 8, 12, 16, 20>>

\* y of every landmark that is not a fingertip
JointY == 1

\* how far from a line the landmark x values beside it lie
XMargin == 1

\* how far above or below its joint a fingertip that is not level with it lies
TipDelta == 1

\* display widths GetSystemMetrics(0) may report
ScreenWidths == {1280, 1366, 1920}

(***************************************************************************)
(* Text: a string is a sequence of one-character strings                   *)
(***************************************************************************)
UpperLetters == <<"Y", "O", "U", "T", "B", "E", "V", "L", "C">>
LowerLetters == <<"y", "o", "u", "t", "b", "e", "v", "l", "c">>

\* str.lower() on one character
lower_char(c) ==
    IF \E i \in 1..Len(UpperLetters) : UpperLetters[i] = c
    THEN LowerLetters[CHOOSE i \in 1..Len(UpperLetters) : UpperLetters[i] = c]
    ELSE c

\* a lower() that leaves the text as typed
lower_unchanged(s) == s

\* main.py 258: o_media_player_name.lower()
lower(s) == [i \in 1..Len(s) |-> lower_char(s[i])]

youtube == <<"y", "o", "u", "t", "u", "b", "e">>

\* the texts typed at the prompt of main.py 256
Names ==
    { youtube,
      <<"Y", "o", "u", "T", "u", "b", "e">>,
      <<"y", "o", "u", "t", "u", "b">>,
      <<"y", "o", "u", "t", "u", "b", "e", " ">>,
      <<"v", "l", "c">>,
      <<"V", "L", "C">>,
      <<>> }

\* interface.py 53-61: the player, or "ValueError" when it raises
create_media_player(media_ply_name) ==
    IF media_ply_name = youtube THEN "Youtube" ELSE "ValueError"

\* interface.py 29-49: the key each Youtube operation presses
Youtube ==
    [ play_pause      |-> "Space",
      volume_decrease |-> "Down",
      volume_increase |-> "Up",
      forward         |-> "Right",
      backward        |-> "Left" ]

Operations == DOMAIN Youtube

(***************************************************************************)
(* Screen.line_pos, main.py 58-73.  The divisions are exact: 555/1920 is   *)
(* 37/128 and 1365/1920 is 91/128, so that w*555/1920 and w*1365/1920 are  *)
(* dyadic and their products with 640 are multiples of w.                  *)
(***************************************************************************)
line_pos(w) ==
    << ((w * 555) * 640) \div (1920 * w),
       ((w * 1365) * 640) \div (1920 * w) >>

(***************************************************************************)
(* Landmarks                                                               *)
(***************************************************************************)
Lm(lst, i) == lst[i + 1]     \* lst[i] in Python
X(e) == e[2]                 \* e[1] in Python
Y(e) == e[3]                 \* e[2] in Python

Labels == {"Left", "Right"}

\* landmark x values: on each line of line_pos and on either side of it
XVals ==
    LET lp == line_pos(1920)
    IN  { lp[1] - XMargin, lp[1], lp[1] + XMargin,
          lp[2] - XMargin, lp[2], lp[2] + XMargin }

\* fingertip y values: above, level with and below the joint
TipYVals == { JointY - TipDelta, JointY, JointY + TipDelta }

TipIndexes == {8, 12, 16, 20}

\* x of the landmarks whose x the program never reads
RestX == (line_pos(1920)[1] + line_pos(1920)[2]) \div 2

\* the 21 entries finger_position appends for a hand (main.py 177-181)
HandList(x8, x9, ty) ==
    [ k \in 1..21 |->
        LET i == k - 1
        IN  << i,
               IF i = 8 THEN x8 ELSE IF i = 9 THEN x9 ELSE RestX,
               IF i \in TipIndexes THEN ty[i] ELSE JointY >> ]

AllHands ==
    { HandList(x8, x9, ty) : x8 \in XVals, x9 \in XVals,
                             ty \in [TipIndexes -> TipYVals] }

\* a fist (no fingertip above its joint, the index fingertip folded onto
\* the palm centre) with the palm between the lines
FistHands ==
    { h \in AllHands :
        /\ \A t \in TipIndexes : Y(Lm(h, t)) >= Y(Lm(h, t - 2))
        /\ X(Lm(h, 8)) = X(Lm(h, 9))
        /\ X(Lm(h, 9)) > line_pos(1920)[1]
        /\ X(Lm(h, 9)) < line_pos(1920)[2] }

\* the label sequences MediaPipe reports for 1..max_num_hands hands
HandednessLists ==
    UNION { [1..n -> Labels] : n \in 1..max_num_hands }

\* a detection: the handedness list and the landmarks of hand 0
\* (empty handedness list: multi_handedness and multi_hand_landmarks are None)
Detections(sc) ==
    IF sc = "fist"
    THEN { [handedness |-> hs, hand0 |-> h] :
               hs \in HandednessLists, h \in FistHands }
    ELSE { [handedness |-> hs, hand0 |-> h] :
               hs \in HandednessLists, h \in AllHands }
         \cup { [handedness |-> <<>>, hand0 |-> <<>>] }

\* HandDetection.hand_type, main.py 146-159: the label of the last hand
hand_type(mh) ==
    IF Len(mh) = 0 THEN "None" ELSE mh[Len(mh)]

\* HandDetection.finger_position, main.py 161-182: the entries of hand 0
finger_position(det) ==
    IF Len(det.handedness) = 0 THEN <<>> ELSE det.hand0

(***************************************************************************)
(* Finger-state extraction, main.py 291-300                                *)
(***************************************************************************)
RECURSIVE fingers_from(_, _)
fingers_from(lst, i) ==
    IF i > 4 THEN <<>>
    ELSE LET tip   == Lm(lst, finger_tips[i + 1])
             joint == Lm(lst, finger_tips[i + 1] - 2)
             one   == IF Y(tip) < Y(joint) THEN <<1>> ELSE <<>>
             zero  == IF Y(tip) > Y(joint) THEN <<0>> ELSE <<>>
         IN  one \o zero \o fingers_from(lst, i + 1)

\* main.py 293-299: for i in range(1, 5)
extract_fingers(lst) == fingers_from(lst, 1)

\* main.py 300: fingers.count(1)
count_ones(f) == Cardinality({ i \in 1..Len(f) : f[i] = 1 })

(***************************************************************************)
(* HandGesture, main.py 185-252: the player operations a method invokes,   *)
(* in order                                                                *)
(***************************************************************************)
\* a fist test that also fires on the two lines
total_fingers_0_closed(lst, lines, lab) ==
    IF X(Lm(lst, 9)) >= lines[1] /\ X(Lm(lst, 9)) <= lines[2]
    THEN <<"play_pause">> ELSE <<>>

\* main.py 207-216
total_fingers_0(lst, lines, lab) ==
    IF X(Lm(lst, 9)) > lines[1] /\ X(Lm(lst, 9)) < lines[2]
    THEN <<"play_pause">> ELSE <<>>

\* a seek test that ignores the handedness label
total_fingers_1_nolabel(lst, lines, lab) ==
    IF Y(Lm(lst, 8)) < Y(Lm(lst, 6))
    THEN (IF X(Lm(lst, 8)) < lines[1] THEN <<"backward">> ELSE <<>>)
         \o (IF X(Lm(lst, 8)) > lines[2] THEN <<"forward">> ELSE <<>>)
    ELSE <<>>

\* main.py 218-233
total_fingers_1(lst, lines, lab) ==
    IF Y(Lm(lst, 8)) < Y(Lm(lst, 6))
    THEN (IF X(Lm(lst, 8)) < lines[1] /\ lab = "Left"
          THEN <<"backward">> ELSE <<>>)
         \o (IF X(Lm(lst, 8)) > lines[2] /\ lab = "Right"
             THEN <<"forward">> ELSE <<>>)
    ELSE <<>>

\* a volume test that does not look at the index finger
total_fingers_2_noindex(lst, lines, lab) ==
    IF Y(Lm(lst, 12)) < Y(Lm(lst, 10))
    THEN (IF X(Lm(lst, 9)) < lines[1] /\ lab = "Left"
          THEN <<"volume_decrease">> ELSE <<>>)
         \o (IF X(Lm(lst, 9)) > lines[2] /\ lab = "Right"
             THEN <<"volume_increase">> ELSE <<>>)
    ELSE <<>>

\* main.py 235-252
total_fingers_2(lst, lines, lab) ==
    IF Y(Lm(lst, 12)) < Y(Lm(lst, 10)) /\ Y(Lm(lst, 8)) < Y(Lm(lst, 6))
    THEN (IF X(Lm(lst, 9)) < lines[1] /\ lab = "Left"
          THEN <<"volume_decrease">> ELSE <<>>)
         \o (IF X(Lm(lst, 9)) > lines[2] /\ lab = "Right"
             THEN <<"volume_increase">> ELSE <<>>)
    ELSE <<>>

\* a dispatch whose tests are "at least" instead of "equal"
gesture_calls_atleast(n, lst, lines, lab) ==
    (IF n = 0 THEN total_fingers_0(lst, lines, lab) ELSE <<>>)
    \o (IF n >= 1 THEN total_fingers_1(lst, lines, lab) ELSE <<>>)
    \o (IF n >= 2 THEN total_fingers_2(lst, lines, lab) ELSE <<>>)

\* main.py 302-309: the three tests on total_fingers
gesture_calls(n, lst, lines, lab) ==
    (IF n = 0 THEN total_fingers_0(lst, lines, lab) ELSE <<>>)
    \o (IF n = 1 THEN total_fingers_1(lst, lines, lab) ELSE <<>>)
    \o (IF n = 2 THEN total_fingers_2(lst, lines, lab) ELSE <<>>)

(***************************************************************************)
(* Initial state: the interpreter is at the prompt of main.py 256          *)
(***************************************************************************)
InitCommon ==
    /\ pc = "input"
    /\ o_media_player_name \in Names
    /\ o_media_player = "None"
    /\ lines_pos_x = <<>>
    /\ q = FALSE
    /\ multi_handedness = <<>>
    /\ label = "None"
    /\ o_position_list = <<>>
    /\ extracted = FALSE
    /\ fingers = <<>>
    /\ total_fingers = 0
    /\ pending = <<>>
    /\ invoked = <<>>
    /\ pressed = <<>>
    /\ sincePress = -1
    /\ lastGap = -1
    /\ exit = "none"

Init == InitCommon /\ scene = "any"

InitHeldFist == InitCommon /\ scene = "fist"

(***************************************************************************)
(* Start-up, main.py 255-258                                               *)
(***************************************************************************)
CreatePlayer ==
    /\ pc = "input"
    /\ LET made == create_media_player(lower(o_media_player_name))
       IN  IF made = "ValueError"
           THEN /\ pc' = "error"
                /\ UNCHANGED o_media_player
           ELSE /\ pc' = "main"
                /\ o_media_player' = made
    /\ UNCHANGED <<scene, o_media_player_name, lines_pos_x, q, frameVars,
                   sincePress, lastGap, exit>>

\* main.py 266-276: up to the first test of the while loop
EnterMain ==
    /\ pc = "main"
    /\ \E w \in ScreenWidths : lines_pos_x' = line_pos(w)
    /\ pc' = "loop"
    /\ UNCHANGED <<scene, o_media_player_name, o_media_player, q, frameVars,
                   sincePress, lastGap, exit>>

(***************************************************************************)
(* The frame loop, main.py 278-309                                         *)
(***************************************************************************)
\* main.py 278: stream.isOpened() is false
StreamClosed ==
    /\ pc = "loop"
    /\ pc' = "done"
    /\ exit' = "closed"
    /\ UNCHANGED <<scene, o_media_player_name, o_media_player, lines_pos_x, q,
                   frameVars, sincePress, lastGap>>

\* main.py 280-282: the read fails
ReadFail ==
    /\ pc = "loop"
    /\ pc' = "done"
    /\ exit' = "read"
    /\ UNCHANGED <<scene, o_media_player_name, o_media_player, lines_pos_x, q,
                   frameVars, sincePress, lastGap>>

\* main.py 280-282: the read succeeds
ReadOk ==
    /\ pc = "loop"
    /\ pc' = "keycheck"
    /\ UNCHANGED <<scene, o_media_player_name, o_media_player, lines_pos_x, q,
                   frameVars, sincePress, lastGap, exit>>

\* a key test that never leaves the loop
KeyCheckIgnored ==
    /\ pc = "keycheck"
    /\ pc' = "process"
    /\ UNCHANGED <<scene, o_media_player_name, o_media_player, lines_pos_x, q,
                   frameVars, sincePress, lastGap, exit>>

\* main.py 284-285
KeyCheck ==
    /\ pc = "keycheck"
    /\ IF q THEN pc' = "done" /\ exit' = "key"
            ELSE pc' = "process" /\ UNCHANGED exit
    /\ UNCHANGED <<scene, o_media_player_name, o_media_player, lines_pos_x, q,
                   frameVars, sincePress, lastGap>>

\* main.py 287-309 up to the first player operation: detection, label,
\* position list, finger extraction and the operations the gesture invokes
ProcessWith(det) ==
    LET lab == hand_type(det.handedness)
        lst == finger_position(det)
    IN  /\ multi_handedness' = det.handedness
        /\ label' = lab
        /\ o_position_list' = lst
        /\ IF Len(lst) # 0
           THEN LET f == extract_fingers(lst)
                    n == count_ones(f)
                IN  /\ extracted' = TRUE
                    /\ fingers' = f
                    /\ total_fingers' = n
                    /\ pending' = gesture_calls(n, lst, lines_pos_x, lab)
           ELSE /\ extracted' = FALSE
                /\ fingers' = <<>>
                /\ total_fingers' = 0
                /\ pending' = <<>>

Process ==
    /\ pc = "process"
    /\ \E det \in Detections(scene) : ProcessWith(det)
    /\ pc' = "dispatch"
    /\ UNCHANGED <<scene, o_media_player_name, o_media_player, lines_pos_x, q,
                   invoked, pressed, sincePress, lastGap, exit>>

\* interface.py 31-49, first statement: pyautogui.press
Press ==
    /\ pc = "dispatch"
    /\ pending # <<>>
    /\ o_media_player = "Youtube"
    /\ invoked' = Append(invoked, Head(pending))
    /\ pressed' = Append(pressed, Youtube[Head(pending)])
    /\ pending' = Tail(pending)
    /\ lastGap' = sincePress
    /\ sincePress' = 0
    /\ pc' = "sleep"
    /\ UNCHANGED <<scene, o_media_player_name, o_media_player, lines_pos_x, q,
                   multi_handedness, label, o_position_list, extracted,
                   fingers, total_fingers, exit>>

\* a tenth of a second passes
Tick ==
    /\ sincePress >= 0
    /\ sincePress < SettleDelay
    /\ sincePress' = sincePress + 1
    /\ UNCHANGED <<pc, scene, o_media_player_name, o_media_player,
                   lines_pos_x, q, frameVars, lastGap, exit>>

\* a sleep that returns at once
WakeAtOnce ==
    /\ pc = "sleep"
    /\ pc' = "dispatch"
    /\ UNCHANGED <<scene, o_media_player_name, o_media_player, lines_pos_x, q,
                   frameVars, sincePress, lastGap, exit>>

\* interface.py 31-49, second statement: time.sleep(0.7) returns
Wake ==
    /\ pc = "sleep"
    /\ sincePress >= SettleDelay
    /\ pc' = "dispatch"
    /\ UNCHANGED <<scene, o_media_player_name, o_media_player, lines_pos_x, q,
                   frameVars, sincePress, lastGap, exit>>

\* the end of the loop body: the per-frame values are rebound by the next
\* iteration before they are read again
EndFrame ==
    /\ pc = "dispatch"
    /\ pending = <<>>
    /\ pc' = "loop"
    /\ multi_handedness' = <<>>
    /\ label' = "None"
    /\ o_position_list' = <<>>
    /\ extracted' = FALSE
    /\ fingers' = <<>>
    /\ total_fingers' = 0
    /\ invoked' = <<>>
    /\ pressed' = <<>>
    /\ UNCHANGED <<scene, o_media_player_name, o_media_player, lines_pos_x, q,
                   pending, sincePress, lastGap, exit>>

\* the user presses or releases the "q" key while main() waits: for the
\* next frame, or in a settle delay (the computation between takes no time)
KeyToggle ==
    /\ pc \in {"loop", "keycheck", "sleep"}
    /\ q' = ~q
    /\ UNCHANGED <<pc, scene, o_media_player_name, o_media_player,
                   lines_pos_x, frameVars, sincePress, lastGap, exit>>

Step ==
    \/ CreatePlayer
    \/ EnterMain
    \/ StreamClosed
    \/ ReadFail
    \/ ReadOk
    \/ KeyCheck
    \/ Process
    \/ Press
    \/ Wake
    \/ EndFrame

Next == Step \/ Tick \/ KeyToggle

Spec == Init /\ [][Next]_vars

\* a held fist in the centre zone; the program keeps running and time passes
HeldFistSpec ==
    InitHeldFist /\ [][Next]_vars /\ WF_vars(Step) /\ WF_vars(Tick)

(***************************************************************************)
(* Vocabulary of the properties, read off the current frame                *)
(***************************************************************************)
Running == {"loop", "keycheck", "process", "dispatch", "sleep"}

\* the current frame has been classified
InFrame == pc \in {"dispatch", "sleep"}

\* the current frame has been classified and every operation it invokes
\* has returned
FrameDone == pc = "dispatch" /\ pending = <<>>

HasHand == multi_handedness # <<>>

LeftBoundary == lines_pos_x[1]
RightBoundary == lines_pos_x[2]

IndexTipX == o_position_list[9][2]
PalmX == o_position_list[10][2]

\* fingertip t is above the landmark two below it
Extended(t) == o_position_list[t + 1][3] < o_position_list[t - 1][3]

ExtendedCount == Cardinality({ t \in TipIndexes : Extended(t) })

SeekOrVolume == {"forward", "backward", "volume_increase", "volume_decrease"}

\* c is the letter l in lower or upper case
IsCaseOf(c, l) ==
    \/ c = l
    \/ \E i \in 1..Len(LowerLetters) : LowerLetters[i] = l /\ UpperLetters[i] = c

IsYoutubeAnyCase(s) ==
    /\ Len(s) = Len(youtube)
    /\ \A i \in 1..Len(s) : IsCaseOf(s[i], youtube[i])

KeyOf(op) ==
    CASE op = "play_pause"      -> "Space"
      [] op = "forward"         -> "Right"
      [] op = "backward"        -> "Left"
      [] op = "volume_increase" -> "Up"
      [] op = "volume_decrease" -> "Down"

NoFrameTouched ==
    /\ multi_handedness = <<>> /\ o_position_list = <<>> /\ fingers = <<>>
    /\ ~extracted /\ pending = <<>> /\ invoked = <<>> /\ pressed = <<>>
    /\ sincePress = -1 /\ lastGap = -1 /\ lines_pos_x = <<>> /\ exit = "none"

(***************************************************************************)
(* C1: for every processed frame the frame loop invokes at most one of the *)
(* five player operations, and invokes it at most once.                    *)
(***************************************************************************)
C1_AtMostOneCommand ==
    /\ Len(invoked) <= 1
    /\ Len(pressed) <= 1
    /\ \A i \in 1..Len(invoked) : invoked[i] \in Operations

C1_Witness ==
    /\ FrameDone
    /\ Len(invoked) = 1
    /\ LeftBoundary < RightBoundary

(***************************************************************************)
(* C2, as stated: for every frame with a detected hand and extended-finger *)
(* count 1, index fingertip x < leftBoundary with handedness Left invokes  *)
(* backward(), index fingertip x > rightBoundary with handedness Right     *)
(* invokes forward(), and every other combination invokes nothing.         *)
(***************************************************************************)
C2_Original ==
    (FrameDone /\ HasHand /\ ExtendedCount = 1) =>
        invoked = IF IndexTipX < LeftBoundary /\ label = "Left"
                  THEN <<"backward">>
                  ELSE IF IndexTipX > RightBoundary /\ label = "Right"
                  THEN <<"forward">>
                  ELSE <<>>

(***************************************************************************)
(* C2, amended: for every frame with a detected hand and extended-finger   *)
(* count 1, backward() is invoked exactly when the index finger is the     *)
(* extended one, its tip x < leftBoundary and handedness is Left;          *)
(* forward() exactly when the index finger is the extended one, its tip    *)
(* x > rightBoundary and handedness is Right; nothing is invoked otherwise *)
(* (in particular when the one extended finger is not the index).          *)
(***************************************************************************)
C2_SeekByIndex ==
    (FrameDone /\ HasHand /\ ExtendedCount = 1) =>
        invoked = IF Extended(8) /\ IndexTipX < LeftBoundary /\ label = "Left"
                  THEN <<"backward">>
                  ELSE IF Extended(8) /\ IndexTipX > RightBoundary
                          /\ label = "Right"
                  THEN <<"forward">>
                  ELSE <<>>

C2_Witness ==
    /\ FrameDone /\ HasHand /\ ExtendedCount = 1
    /\ invoked = <<"backward">>

(***************************************************************************)
(* C3: when more than one hand is detected in a frame the handedness given *)
(* to the classifier is None, so that no Seek or Volume operation is       *)
(* invoked in that frame, while a fist in the centre zone still invokes    *)
(* play_pause().                                                           *)
(***************************************************************************)
C3_ManyHandsNoLabel ==
    (InFrame /\ Len(multi_handedness) > 1) =>
        /\ label = "None"
        /\ \A i \in 1..Len(invoked) : invoked[i] \notin SeekOrVolume
        /\ \A i \in 1..Len(pending) : pending[i] \notin SeekOrVolume
        /\ (FrameDone /\ ExtendedCount = 0
              /\ PalmX > LeftBoundary /\ PalmX < RightBoundary)
           => invoked = <<"play_pause">>

(***************************************************************************)
(* C4: player selection is case-insensitive and fails closed: "youtube"    *)
(* in any letter case yields a player each of whose operations presses a   *)
(* key; any other name raises at start-up, and then no frame is processed  *)
(* and no operation invoked.                                               *)
(***************************************************************************)
C4_PlayerSelection ==
    (pc # "input") =>
        /\ IsYoutubeAnyCase(o_media_player_name) =>
              (pc # "error" /\ o_media_player = "Youtube")
        /\ ~IsYoutubeAnyCase(o_media_player_name) =>
              (pc = "error" /\ o_media_player = "None" /\ NoFrameTouched)
        /\ Len(pressed) = Len(invoked)
        /\ \A i \in 1..Len(invoked) : pressed[i] = KeyOf(invoked[i])

C4_Witness ==
    /\ o_media_player_name # youtube
    /\ IsYoutubeAnyCase(o_media_player_name)
    /\ FrameDone
    /\ invoked = <<"volume_increase">>
    /\ pressed = <<"Up">>

(***************************************************************************)
(* C5: with a fist held in the centre zone every processed frame invokes   *)
(* play_pause() once, and after a key press the loop stays in the settle   *)
(* delay, reading and processing no frame, until 0.7 s have passed: two    *)
(* key presses are never closer together than one settle delay.            *)
(***************************************************************************)
C5_OnePerSettleWindow ==
    /\ lastGap = -1 \/ lastGap >= SettleDelay
    /\ (sincePress >= 0 /\ sincePress < SettleDelay) => pc = "sleep"
    /\ Len(invoked) <= 1
    /\ FrameDone => invoked = <<"play_pause">>

C5_Witness ==
    /\ scene = "fist"
    /\ FrameDone
    /\ invoked = <<"play_pause">>
    /\ lastGap = SettleDelay

(***************************************************************************)
(* C6: for every frame with a detected hand and extended-finger count 0,   *)
(* play_pause() is invoked when the palm centre (landmark 9) x is strictly *)
(* between the two boundaries, whatever the handedness, and nothing is     *)
(* invoked when it is on or outside a boundary.                            *)
(***************************************************************************)
C6_FistInCentre ==
    (FrameDone /\ HasHand /\ ExtendedCount = 0) =>
        invoked = IF PalmX > LeftBoundary /\ PalmX < RightBoundary
                  THEN <<"play_pause">>
                  ELSE <<>>

C6_Witness ==
    /\ FrameDone /\ HasHand /\ ExtendedCount = 0
    /\ label = "Right"
    /\ invoked = <<"play_pause">>

(***************************************************************************)
(* C7: for every frame with a detected hand and extended-finger count 2,   *)
(* volume_decrease() is invoked exactly when index and middle are the two  *)
(* extended fingers, palm x < leftBoundary and handedness is Left;         *)
(* volume_increase() exactly when index and middle are extended, palm      *)
(* x > rightBoundary and handedness is Right; nothing otherwise.           *)
(***************************************************************************)
C7_VolumeByPalm ==
    (FrameDone /\ HasHand /\ ExtendedCount = 2) =>
        invoked = IF Extended(8) /\ Extended(12)
                     /\ PalmX < LeftBoundary /\ label = "Left"
                  THEN <<"volume_decrease">>
                  ELSE IF Extended(8) /\ Extended(12)
                          /\ PalmX > RightBoundary /\ label = "Right"
                  THEN <<"volume_increase">>
                  ELSE <<>>

C7_Witness ==
    /\ FrameDone /\ HasHand /\ ExtendedCount = 2
    /\ invoked = <<"volume_increase">>

(***************************************************************************)
(* C8, the parts that are about single steps and states: a stop key found  *)
(* down at the test of main.py 284 ends the loop before the frame is       *)
(* classified; nothing happens once the loop has ended; the read, the key  *)
(* test and the end of the loop are never reached inside a settle delay.   *)
(***************************************************************************)
StopHonoured ==
    (pc = "keycheck" /\ q /\ pc' # pc) => (pc' = "done" /\ UNCHANGED frameVars)

NothingAfterStop == pc # "done"

DelayCompleted ==
    pc \in {"loop", "keycheck", "process", "done"} =>
        ~(sincePress >= 0 /\ sincePress < SettleDelay)

(***************************************************************************)
(* C8, as stated: the frame loop terminates once the stop signal is        *)
(* raised: whenever the stop key goes down while main() runs, the loop     *)
(* ends; the signal is honoured at the top of the next iteration before    *)
(* the frame is classified, nothing is dispatched afterwards, and a        *)
(* command being dispatched completes its settle delay first.              *)
(***************************************************************************)
C8_Original ==
    /\ [][StopHonoured /\ NothingAfterStop]_vars
    /\ []DelayCompleted
    /\ ((q /\ pc \in Running) ~> (pc = "done"))

(***************************************************************************)
(* C8, amended: the frame loop terminates at the first test of main.py 284 *)
(* that finds the stop key down (or at the first failed read); a key that  *)
(* is pressed and released between two such tests, for instance during a   *)
(* settle delay, is not seen, and a key that stays down does end the loop. *)
(* The test runs before the frame is classified, nothing is dispatched     *)
(* afterwards, and a command being dispatched completes its settle delay   *)
(* before the next test.                                                   *)
(***************************************************************************)
C8_StopAtKeyTest ==
    /\ [][StopHonoured /\ NothingAfterStop]_vars
    /\ []DelayCompleted
    /\ (<>[]q => <>(pc = "done"))

C8_Witness ==
    /\ pc = "done"
    /\ exit = "key"
    /\ sincePress = SettleDelay

(***************************************************************************)
(* C9: no operation is invoked for a frame in which no hand is detected or *)
(* in which the extended-finger count is 3 or 4; when no hand is detected  *)
(* the finger extraction and the landmark indexing do not run.             *)
(***************************************************************************)
C9_NoCommandWithoutGesture ==
    /\ (InFrame /\ ~HasHand) =>
          /\ ~extracted /\ fingers = <<>> /\ o_position_list = <<>>
          /\ pending = <<>> /\ invoked = <<>> /\ pressed = <<>>
    /\ (InFrame /\ HasHand /\ ExtendedCount \in {3, 4}) =>
          /\ pending = <<>> /\ invoked = <<>> /\ pressed = <<>>

C9_Witness ==
    /\ FrameDone /\ HasHand /\ ExtendedCount = 3
    /\ Extended(8) /\ Extended(12)
    /\ PalmX < LeftBoundary /\ IndexTipX < LeftBoundary
    /\ label = "Left"

(***************************************************************************)
(* C10: for every hand observation the finger extraction yields exactly 4  *)
(* booleans, one per finger, a finger being recorded extended iff its tip  *)
(* y < y of landmark (tip - 2) and not extended otherwise (tip y = joint y *)
(* included); the count is the number of fingers with tip y < joint y.     *)
(***************************************************************************)
C10_FourBooleans ==
    (InFrame /\ HasHand) =>
        /\ extracted
        /\ Len(fingers) = 4
        /\ \A i \in 1..4 :
              fingers[i] = IF Extended(finger_tips[i + 1]) THEN 1 ELSE 0
        /\ total_fingers = ExtendedCount

====
